---- MODULE Spec2Model ----
(***************************************************************************)
(* Verification model of the policy-optimization core of deep-rl:          *)
(*   - the off-policy actor-critic loop   (proj/algorithms/ddpg.py)        *)
(*   - the conjugate-gradient solver      (proj/common/utils.py)           *)
(*   - the on-policy natural-gradient loop (proj/algorithms/natural.py)    *)
(*   - the snapshot saver                 (proj/utils/saver.py)            *)
(* The replay buffer, compute_pg_vars and flatten_trajs                    *)
(* (proj.common.sampling) and update_polyak (proj.utils.torch_util) are    *)
(* not part of the sources at hand; they are modelled from the written     *)
(* specification (sections 3, 4.1, 4.2 and 4.6).                           *)
(***************************************************************************)
EXTENDS Integers, Sequences, FiniteSets, TLC

(***************************************************************************)
(* Bounds of the model.                                                    *)
(***************************************************************************)
MaxSteps == 4          \* total_steps of the modelled run
MaxStartSteps == 1     \* start_steps ranges over 0..MaxStartSteps
MaxEpLen == 2          \* max_ep_length ranges over 1..MaxEpLen
MaxReplay == 2         \* replay_size ranges over 1..MaxReplay

\* mb_size of the modelled runs
MbSizeSet == {1, 2}
\* vec_env.num_envs of the modelled runs
NumEnvsSet == {1, 2}
\* the values of a network parameter (fixed-point numbers)
ParamVals == {0, 1}
\* the action space of the modelled environment: ac_space.low, ac_space.high
ac_space == [low |-> -1, high |-> 1]
\* the values of act_noise * torch.randn_like(acts)
NoiseVals == -2 .. 2
\* updates_per_step as exact fractions <<numerator, denominator>>: 0.5, 1.0, 1.5
UpdatesPerStepSet == {<<1, 2>>, <<1, 1>>, <<3, 2>>}
\* polyak as an exact fraction
PolyakSet == {<<1, 2>>}
\* epoch lengths of the modelled runs
EpochSet == {2}

Min(a, b) == IF a < b THEN a ELSE b
Max(a, b) == IF a > b THEN a ELSE b

VARIABLES
  \* hyperparameters of ddpg(), fixed for a run
  total_steps, start_steps, mb_size, max_ep_length, updates_per_step,
  replay_size, num_envs, epoch, polyak,
  \* ReplayBuffer fields
  buf, ptr, size,
  \* models, target models and optimizers
  policy, q_func, pi_targ, qf_targ,
  \* locals of the main loop
  pc, samples, ep_length, act_kind, acts, env_dones, dones,
  remaining, batch, targs,
  \* SnapshotSaver calls made by the loop
  snapshots,
  \* observation variables: whether the current iteration ended an episode,
  \* the learning substeps it has completed, the operations of its current substep
  ep_end, n_substeps, trace,
  \* conjugate_gradient: arguments, locals (p, r, x as cg_p, cg_r, cg_x), position
  \* in the loop, and the number of
  \* evaluations of f_Ax (an observation variable)
  cg_A, cg_b, cg_iters, residual_tol, cg_p, cg_r, cg_x, rdotr, cg_i, cg_pc, n_fAx,
  \* natural(): its arguments and its locals, each as one record
  nat_args, nat,
  \* SnapshotSaver: the object, the file system under its path, and the
  \* observation of its calls
  saver, fs, sv_obs

hyper == <<total_steps, start_steps, mb_size, max_ep_length, updates_per_step,
           replay_size, num_envs, epoch, polyak>>
replay == <<buf, ptr, size>>
live == <<policy, q_func>>
targets == <<pi_targ, qf_targ>>
stepvars == <<samples, ep_length, act_kind, acts, env_dones, dones>>
subvars == <<remaining, batch, targs>>
obsvars == <<ep_end, n_substeps, trace>>
ddpgvars == <<hyper, replay, live, targets, pc, stepvars, subvars, snapshots, obsvars>>
cgvars == <<cg_A, cg_b, cg_iters, residual_tol, cg_p, cg_r, cg_x, rdotr, cg_i, cg_pc, n_fAx>>
natvars == <<nat_args, nat>>
savervars == <<saver, fs, sv_obs>>
\* what the off-policy loop and what conjugate_gradient leave alone
nonddpg == <<cgvars, natvars, savervars>>
noncg == <<ddpgvars, natvars, savervars>>
vars == <<ddpgvars, cgvars, natvars, savervars>>

(***************************************************************************)
(* Replay buffer (modelled from the specification, sections 3 and 4.1).    *)
(* A transition is [id, done]: id marks the environment step and the       *)
(* environment it came from, done is the stored done flag (0 or 1).        *)
(* An uninitialized slot holds NoTransition.                               *)
(***************************************************************************)
NoTransition == [id |-> 0, done |-> 0]

ReplayBuffer(capacity) ==
  [buf |-> [i \in 0 .. capacity - 1 |-> NoTransition], ptr |-> 0, size |-> 0]

store(rb, capacity, tr) ==
  [buf |-> [rb.buf EXCEPT ![rb.ptr] = tr],
   ptr |-> (rb.ptr + 1) % capacity,
   size |-> Min(rb.size + 1, capacity)]

\* the minibatches sample(n) can return: n slots drawn with replacement from [0, size)
sample(rb, n) ==
  IF rb.size = 0 THEN {}
  ELSE {[k \in 1 .. n |-> rb.buf[idx[k]]] : idx \in [1 .. n -> 0 .. rb.size - 1]}

(***************************************************************************)
(* update_polyak (modelled from the specification, section 4.6):           *)
(* p_targ <- rho * p_targ + (1 - rho) * p_live, in fixed-point arithmetic. *)
(***************************************************************************)
update_polyak(from, to, rho) ==
  (rho[1] * to + (rho[2] - rho[1]) * from) \div rho[2]

(***************************************************************************)
(* Off-policy actor-critic loop: ddpg() of proj/algorithms/ddpg.py.        *)
(* Environment 0 of the source is environment 1 here.                      *)
(***************************************************************************)
Envs == 1 .. num_envs

\* pi_targ.load_state_dict(policy.state_dict())
load_state_dict(state_dict) == state_dict

\* the initial state passed to saver.save_state(index=0, ...)
InitialStateKeys == {"alg", "policy", "q_func", "pi_optim", "qf_optim", "qf_targ"}
\* the state passed to saver.save_state at the end of an epoch
EpochStateKeys ==
  {"alg", "policy", "q_func", "pi_optim", "qf_optim", "pi_targ", "qf_targ"}

\* if samples <= start_steps: rand_uniform_actions else noisy_policy_actions
ActionKindWrong(n, start) == IF n < start THEN "random" ELSE "policy"
ActionKind(n, start) == IF n <= start THEN "random" ELSE "policy"

\* np.clip(x, ac_space.low, ac_space.high)
clip(x, low, high) == Max(low, Min(x, high))

\* ac_space.sample() for every environment
rand_uniform_actions == [Envs -> ac_space.low .. ac_space.high]

\* policy output plus Gaussian noise, clipped to the action space; the
\* policy's output is read off its parameter
noisy_policy_actions ==
  [Envs -> {clip(policy + nz, ac_space.low, ac_space.high) : nz \in NoiseVals}]

\* dones[0] = False if ep_length == max_ep_length else dones[0]
MaskCutoff(ds, epl, maxl) == [ds EXCEPT ![1] = IF epl = maxl THEN FALSE ELSE @]

\* the marker of the transition of environment i at step n
Marker(n, i) == (n - 1) * num_envs + i

\* dones.astype("f")
AsFloat(b) == IF b THEN 1 ELSE 0

\* for ob1, act, rew, ob2, done in zip(*as_tensors): replay.store(...)
RECURSIVE StoreAllFrom(_, _, _, _)
StoreAllFrom(rb, capacity, trs, k) ==
  IF k > Len(trs) THEN rb
  ELSE StoreAllFrom(store(rb, capacity, trs[k]), capacity, trs, k + 1)

StoreFirstOnly(rb, capacity, trs) ==
  IF Len(trs) = 0 THEN rb ELSE store(rb, capacity, trs[1])
StoreAll(rb, capacity, trs) == StoreAllFrom(rb, capacity, trs, 1)

\* (dones[0] or ep_length == max_ep_length) and replay.size >= mb_size
UpdateDueNoSizeCheck(d0, epl, maxl, sz, mb) == d0 \/ epl = maxl
UpdateDueStrict(d0, epl, maxl, sz, mb) == (d0 \/ epl = maxl) /\ sz > mb
UpdateDue(d0, epl, maxl, sz, mb) == (d0 \/ epl = maxl) /\ sz >= mb

\* int(ep_length * updates_per_step)
NumSubstepsRounded(epl, ups) ==
  LET q == (epl * ups[1]) \div ups[2]
      r == (epl * ups[1]) % ups[2]
  IN IF 2 * r < ups[2] THEN q
     ELSE IF 2 * r > ups[2] THEN q + 1
     ELSE IF q % 2 = 0 THEN q ELSE q + 1
NumSubsteps(epl, ups) == (epl * ups[1]) \div ups[2]

rb_now == [buf |-> buf, ptr |-> ptr, size |-> size]

\* conjugate_gradient is not running
CGIdle ==
  /\ cg_A = <<>> /\ cg_b = <<>> /\ cg_iters = 0 /\ residual_tol = <<0, 1>>
  /\ cg_p = <<>> /\ cg_r = <<>> /\ cg_x = <<>> /\ rdotr = <<0, 1>>
  /\ cg_i = 0 /\ cg_pc = "idle" /\ n_fAx = 0

\* natural() is not running
NatIdle ==
  /\ nat_args = <<>>
  /\ nat = [pc |-> "idle"]

\* no SnapshotSaver has been constructed
SaverIdle ==
  /\ saver = <<>>
  /\ fs = <<>>
  /\ sv_obs = <<>>

InitDDPG ==
  /\ CGIdle
  /\ NatIdle
  /\ SaverIdle
  /\ total_steps = MaxSteps
  /\ start_steps \in 0 .. MaxStartSteps
  /\ mb_size \in MbSizeSet
  /\ max_ep_length \in 1 .. MaxEpLen
  /\ updates_per_step \in UpdatesPerStepSet
  /\ replay_size \in 1 .. MaxReplay
  /\ num_envs \in NumEnvsSet
  /\ epoch \in EpochSet
  /\ polyak \in PolyakSet
  /\ buf = ReplayBuffer(replay_size).buf
  /\ ptr = ReplayBuffer(replay_size).ptr
  /\ size = ReplayBuffer(replay_size).size
  /\ policy \in ParamVals
  /\ q_func \in ParamVals
  /\ pi_targ = load_state_dict(policy)
  /\ qf_targ = load_state_dict(q_func)
  /\ pc = "init_save"
  /\ samples = 0
  /\ ep_length = 0
  /\ act_kind = "none"
  /\ acts = <<>>
  /\ env_dones = <<>>
  /\ dones = <<>>
  /\ remaining = 0
  /\ batch = <<>>
  /\ targs = <<>>
  /\ snapshots = <<>>
  /\ ep_end = FALSE
  /\ n_substeps = 0
  /\ trace = <<>>

\* ddpg.py 60-71: saver.save_state(index=0, state=...)
SaveInitialState ==
  /\ pc = "init_save"
  /\ snapshots' = Append(snapshots,
                         [index |-> 0, samples |-> 0, keys |-> InitialStateKeys])
  /\ pc' = "init_test"
  /\ UNCHANGED <<nonddpg, hyper, replay, live, targets, stepvars, subvars, obsvars>>

\* ddpg.py 76-90 and 148-152: test_policy() and logging; reads the policy only
TestPolicy ==
  /\ pc \in {"init_test", "test"}
  /\ pc' = IF pc = "init_test" THEN "loop" ELSE "save"
  /\ UNCHANGED <<nonddpg, hyper, replay, live, targets, stepvars, subvars, snapshots, obsvars>>

\* ddpg.py 104-110: the next sample, the action strategy and the actions
SelectActions ==
  /\ pc = "loop"
  /\ samples < total_steps
  /\ samples' = samples + 1
  /\ act_kind' = ActionKind(samples', start_steps)
  /\ acts' \in IF act_kind' = "random" THEN rand_uniform_actions
               ELSE noisy_policy_actions
  /\ pc' = "step"
  /\ UNCHANGED <<nonddpg, hyper, replay, live, targets, ep_length, env_dones, dones, subvars,
                 snapshots, obsvars>>

\* ddpg.py 111-118: step the environments and store one transition per environment
\* (acts is not read after the store)
EnvStep ==
  /\ pc = "step"
  /\ env_dones' \in [Envs -> BOOLEAN]
  /\ ep_length' = ep_length + 1
  /\ dones' = MaskCutoff(env_dones', ep_length', max_ep_length)
  /\ LET trs == [i \in Envs |->
                   [id |-> Marker(samples, i), done |-> AsFloat(dones'[i])]]
         rb == StoreAll(rb_now, replay_size, trs)
     IN /\ buf' = rb.buf
        /\ ptr' = rb.ptr
        /\ size' = rb.size
  /\ acts' = <<>>
  /\ pc' = "check"
  /\ UNCHANGED <<nonddpg, hyper, live, targets, samples, act_kind, subvars, snapshots, obsvars>>

\* ddpg.py 120-121: is an update due, and of how many substeps
\* (dones is not read after the test)
CheckEpisodeEnd ==
  /\ pc = "check"
  /\ ep_end' = (dones[1] \/ ep_length = max_ep_length)
  /\ IF UpdateDue(dones[1], ep_length, max_ep_length, size, mb_size)
     THEN /\ remaining' = NumSubsteps(ep_length, updates_per_step)
          /\ pc' = IF remaining' > 0 THEN "sample" ELSE "reset"
     ELSE /\ remaining' = 0
          /\ pc' = "epoch"
  /\ env_dones' = <<>>
  /\ dones' = <<>>
  /\ UNCHANGED <<nonddpg, hyper, replay, live, targets, samples, ep_length, act_kind, acts,
                 batch, targs, snapshots, n_substeps, trace>>

\* ddpg.py 122: replay.sample(mb_size)
Sample ==
  /\ pc = "sample"
  /\ batch' \in sample(rb_now, mb_size)
  /\ trace' = <<"sample">>
  /\ pc' = "target"
  /\ UNCHANGED <<nonddpg, hyper, replay, live, targets, stepvars, remaining, targs, snapshots,
                 ep_end, n_substeps>>

\* ddpg.py 123-124: the regression target, from the target networks
ComputeTargets ==
  /\ pc = "target"
  /\ targs' = [pi |-> pi_targ, qf |-> qf_targ]
  /\ trace' = Append(trace, "target")
  /\ pc' = "critic"
  /\ UNCHANGED <<nonddpg, hyper, replay, live, targets, stepvars, remaining, batch, snapshots,
                 ep_end, n_substeps>>

\* a critic optimizer built over the parameters of the target critic
CriticStepOnTarget ==
  /\ pc = "critic"
  /\ qf_targ' \in ParamVals
  /\ trace' = Append(trace, "critic")
  /\ pc' = "actor"
  /\ UNCHANGED <<nonddpg, hyper, replay, live, pi_targ, stepvars, subvars, snapshots,
                 ep_end, n_substeps>>

\* ddpg.py 125-129: one gradient step of the critic
CriticStep ==
  /\ pc = "critic"
  /\ q_func' \in ParamVals
  /\ trace' = Append(trace, "critic")
  /\ pc' = "actor"
  /\ UNCHANGED <<nonddpg, hyper, replay, policy, targets, stepvars, subvars, snapshots,
                 ep_end, n_substeps>>

\* an actor step after which the target policy is not updated
ActorStepSkipsPolyakPi ==
  /\ pc = "actor"
  /\ policy' \in ParamVals
  /\ batch' = <<>>
  /\ targs' = <<>>
  /\ trace' = Append(trace, "actor")
  /\ pc' = "polyak_qf"
  /\ UNCHANGED <<nonddpg, hyper, replay, q_func, targets, stepvars, remaining, snapshots,
                 ep_end, n_substeps>>

\* ddpg.py 131-135: one gradient step of the actor
\* (the minibatch and its targets are not read after this step)
ActorStep ==
  /\ pc = "actor"
  /\ policy' \in ParamVals
  /\ batch' = <<>>
  /\ targs' = <<>>
  /\ trace' = Append(trace, "actor")
  /\ pc' = "polyak_pi"
  /\ UNCHANGED <<nonddpg, hyper, replay, q_func, targets, stepvars, remaining, snapshots,
                 ep_end, n_substeps>>

\* a call with the live and the target network exchanged
PolyakPiSwapped ==
  /\ pc = "polyak_pi"
  /\ pi_targ' = update_polyak(pi_targ, policy, polyak)
  /\ trace' = Append(trace, "polyak_pi")
  /\ pc' = "polyak_qf"
  /\ UNCHANGED <<nonddpg, hyper, replay, live, qf_targ, stepvars, subvars, snapshots, ep_end,
                 n_substeps>>

\* ddpg.py 137: update_polyak(policy, pi_targ, polyak)
PolyakPi ==
  /\ pc = "polyak_pi"
  /\ pi_targ' = update_polyak(policy, pi_targ, polyak)
  /\ trace' = Append(trace, "polyak_pi")
  /\ pc' = "polyak_qf"
  /\ UNCHANGED <<nonddpg, hyper, replay, live, qf_targ, stepvars, subvars, snapshots, ep_end,
                 n_substeps>>

\* ddpg.py 138-143: update_polyak(q_func, qf_targ, polyak), logging, next substep
PolyakQf ==
  /\ pc = "polyak_qf"
  /\ qf_targ' = update_polyak(q_func, qf_targ, polyak)
  /\ trace' = Append(trace, "polyak_qf")
  /\ n_substeps' = n_substeps + 1
  /\ remaining' = remaining - 1
  /\ pc' = IF remaining' > 0 THEN "sample" ELSE "reset"
  /\ UNCHANGED <<nonddpg, hyper, replay, live, pi_targ, stepvars, batch, targs, snapshots,
                 ep_end>>

\* ddpg.py 145: ep_length = 0
ResetEpLength ==
  /\ pc = "reset"
  /\ ep_length' = 0
  /\ pc' = "epoch"
  /\ UNCHANGED <<nonddpg, hyper, replay, live, targets, samples, act_kind, acts, env_dones, dones,
                 subvars, snapshots, obsvars>>

\* ddpg.py 147: if samples % epoch == 0
\* (the observation of the iteration's learning burst ends here)
EpochCheck ==
  /\ pc = "epoch"
  /\ pc' = IF samples % epoch = 0 THEN "test" ELSE "loop"
  /\ ep_end' = FALSE
  /\ n_substeps' = 0
  /\ trace' = <<>>
  /\ UNCHANGED <<nonddpg, hyper, replay, live, targets, stepvars, subvars, snapshots>>

\* ddpg.py 154-165: saver.save_state(index=samples // epoch, state=...)
SaveState ==
  /\ pc = "save"
  /\ snapshots' = Append(snapshots,
                         [index |-> samples \div epoch, samples |-> samples,
                          keys |-> EpochStateKeys])
  /\ pc' = "loop"
  /\ UNCHANGED <<nonddpg, hyper, replay, live, targets, stepvars, subvars, obsvars>>

\* ddpg.py 104: the range is exhausted
Finish ==
  /\ pc = "loop"
  /\ samples = total_steps
  /\ pc' = "done"
  /\ UNCHANGED <<nonddpg, hyper, replay, live, targets, stepvars, subvars, snapshots, obsvars>>

NextDDPG ==
  \/ SaveInitialState
  \/ TestPolicy
  \/ SelectActions
  \/ EnvStep
  \/ CheckEpisodeEnd
  \/ Sample
  \/ ComputeTargets
  \/ CriticStep
  \/ ActorStep
  \/ PolyakPi
  \/ PolyakQf
  \/ ResetEpLength
  \/ EpochCheck
  \/ SaveState
  \/ Finish

Spec == InitDDPG /\ [][NextDDPG]_vars

(***************************************************************************)
(* Floating-point numbers are modelled as exact fractions <<n, d>> with    *)
(* d > 0 in lowest terms, plus the three special values NaN = <<0, 0>>,    *)
(* +inf = <<1, 0>> and -inf = <<-1, 0>>. Division by zero does not raise   *)
(* on tensors: x / 0 is +-inf for x # 0 and NaN for x = 0. Rounding and    *)
(* the sign of zero are not modelled.                                      *)
(***************************************************************************)
Abs(n) == IF n < 0 THEN -n ELSE n
Sign(n) == IF n > 0 THEN 1 ELSE IF n < 0 THEN -1 ELSE 0

RECURSIVE GCD(_, _)
GCD(a, b) == IF b = 0 THEN a ELSE GCD(b, a % b)

Norm(n, d) ==
  IF d = 0 THEN <<Sign(n), 0>>
  ELSE LET g == GCD(Abs(n), Abs(d))
       IN <<(Sign(d) * n) \div g, Abs(d) \div g>>

NaN == <<0, 0>>
Zero == <<0, 1>>
IsNaN(a) == a = NaN
IsFinite(a) == a[2] # 0

\* a * b, cancelling common factors before the products
FMul(a, b) ==
  LET g1 == GCD(Abs(a[1]), Abs(b[2]))
      g2 == GCD(Abs(b[1]), Abs(a[2]))
      h1 == IF g1 = 0 THEN 1 ELSE g1
      h2 == IF g2 = 0 THEN 1 ELSE g2
  IN Norm((a[1] \div h1) * (b[1] \div h2), (a[2] \div h2) * (b[2] \div h1))
FInv(a) == Norm(a[2], a[1])
FDiv(a, b) == FMul(a, FInv(b))
FNeg(a) == <<-a[1], a[2]>>
\* a + b, over the least common denominator
FAdd(a, b) ==
  IF a[2] = 0 /\ b[2] = 0 THEN (IF a = b THEN a ELSE NaN)
  ELSE IF a[2] = 0 THEN a
  ELSE IF b[2] = 0 THEN b
  ELSE LET g == GCD(a[2], b[2])
       IN Norm(a[1] * (b[2] \div g) + b[1] * (a[2] \div g), (a[2] \div g) * b[2])
FSub(a, b) == FAdd(a, FNeg(b))
\* a < b; every comparison with NaN is false
FLess(a, b) ==
  IF IsNaN(a) \/ IsNaN(b) THEN FALSE
  ELSE IF a[2] = 0 /\ b[2] = 0 THEN a[1] < b[1]
  ELSE IF a[2] = 0 THEN a[1] < 0
  ELSE IF b[2] = 0 THEN b[1] > 0
  ELSE a[1] * b[2] < b[1] * a[2]

\* vectors are sequences of numbers
RECURSIVE DotFrom(_, _, _)
DotFrom(u, v, k) ==
  IF k > Len(u) THEN Zero ELSE FAdd(FMul(u[k], v[k]), DotFrom(u, v, k + 1))
\* torch.dot(u, v)
Dot(u, v) == DotFrom(u, v, 1)
VScale(c, v) == [k \in 1 .. Len(v) |-> FMul(c, v[k])]
VAdd(u, v) == [k \in 1 .. Len(u) |-> FAdd(u[k], v[k])]
VSub(u, v) == [k \in 1 .. Len(u) |-> FSub(u[k], v[k])]
VFinite(v) == \A k \in 1 .. Len(v) : IsFinite(v[k])

\* f_Ax for a matrix A given by its rows: v -> A.v
f_Ax(A, v) == [k \in 1 .. Len(A) |-> Dot(A[k], v)]

IntVec(v) == [k \in 1 .. Len(v) |-> <<v[k], 1>>]
IntMat(A) == [k \in 1 .. Len(A) |-> IntVec(A[k])]

(***************************************************************************)
(* conjugate_gradient(f_Ax, b, cg_iters=10, residual_tol=1e-10) of         *)
(* proj/common/utils.py.                                                   *)
(***************************************************************************)
CgItersDefault == 10   \* cg_iters=10
\* the entries of b of the modelled calls (larger entries overflow the fractions)
BVals == -2 .. 2

\* the matrices of the modelled calls: diagonal positive definite ones, a
\* singular one, that singular one with a damping of 1 added to its diagonal,
\* the zero matrix and an indefinite one
MatrixSet ==
  {<<<<1, 0>>, <<0, 2>>>>,
   <<<<2, 0>>, <<0, 2>>>>,
   <<<<2, 1>>, <<1, 2>>>>,
   <<<<1, 0, 0>>, <<0, 2, 0>>, <<0, 0, 3>>>>,
   <<<<1, 1>>, <<1, 1>>>>,
   <<<<0, 0>>, <<0, 0>>>>,
   <<<<1, 0>>, <<0, -1>>>>}
CgItersSet == {1, 2, CgItersDefault}
\* residual_tol = 1e-10, in the square of the unit of b: b is counted in units
\* of 1e-5 (tolerance 1) or of 1e-4 (tolerance 1/100)
ResidualTolSet == {<<1, 1>>, <<1, 100>>}

\* if rdotr < residual_tol: break
ShouldBreakNever(rd, tol) == FALSE
ShouldBreak(rd, tol) == FLess(rd, tol)

\* ddpg() is not running
DDPGIdle ==
  /\ total_steps = 0 /\ start_steps = 0 /\ mb_size = 0 /\ max_ep_length = 0
  /\ updates_per_step = <<0, 1>> /\ replay_size = 0 /\ num_envs = 0 /\ epoch = 0
  /\ polyak = <<0, 1>> /\ buf = <<>> /\ ptr = 0 /\ size = 0
  /\ policy = 0 /\ q_func = 0 /\ pi_targ = 0 /\ qf_targ = 0
  /\ pc = "idle" /\ samples = 0 /\ ep_length = 0 /\ act_kind = "none"
  /\ acts = <<>> /\ env_dones = <<>> /\ dones = <<>>
  /\ remaining = 0 /\ batch = <<>> /\ targs = <<>> /\ snapshots = <<>>
  /\ ep_end = FALSE /\ n_substeps = 0 /\ trace = <<>>

\* utils.py 17, 22-25: the arguments, p = b.clone(), r = b.clone(), x = 0, rdotr = r.r
InitCG ==
  /\ DDPGIdle
  /\ NatIdle
  /\ SaverIdle
  /\ cg_A \in {IntMat(A) : A \in MatrixSet}
  /\ cg_b \in {IntVec(v) : v \in [1 .. Len(cg_A) -> BVals]}
  /\ cg_iters \in CgItersSet
  /\ residual_tol \in ResidualTolSet
  /\ cg_p = cg_b
  /\ cg_r = cg_b
  /\ cg_x = [k \in 1 .. Len(cg_b) |-> Zero]
  /\ rdotr = Dot(cg_b, cg_b)
  /\ cg_i = 0
  /\ cg_pc = "loop"
  /\ n_fAx = 0

\* utils.py 27-37: one iteration of the loop, with its break test
CGIterate ==
  /\ cg_pc = "loop"
  /\ cg_i < cg_iters
  /\ LET z == f_Ax(cg_A, cg_p)
         v == FDiv(rdotr, Dot(cg_p, z))
         x1 == VAdd(cg_x, VScale(v, cg_p))
         r1 == VSub(cg_r, VScale(v, z))
         newrdotr == Dot(r1, r1)
         mu == FDiv(newrdotr, rdotr)
         p1 == VAdd(r1, VScale(mu, cg_p))
     IN /\ cg_x' = x1
        /\ cg_r' = r1
        /\ cg_p' = p1
        /\ rdotr' = newrdotr
        /\ cg_pc' = IF ShouldBreak(newrdotr, residual_tol) THEN "return" ELSE "loop"
  /\ cg_i' = cg_i + 1
  /\ n_fAx' = n_fAx + 1
  /\ UNCHANGED <<noncg, cg_A, cg_b, cg_iters, residual_tol>>

\* utils.py 27, 39: the range is exhausted or the loop was left: return x
CGReturn ==
  /\ \/ cg_pc = "return"
     \/ cg_pc = "loop" /\ cg_i = cg_iters
  /\ cg_pc' = "done"
  /\ UNCHANGED <<noncg, cg_A, cg_b, cg_iters, residual_tol, cg_p, cg_r, cg_x, rdotr,
                 cg_i, n_fAx>>

NextCG ==
  \/ CGIterate
  \/ CGReturn

SpecCG == InitCG /\ [][NextCG]_vars

(***************************************************************************)
(* Properties of the off-policy loop.                                      *)
(***************************************************************************)
\* the transitions stored so far: SelectActions counts a sample that EnvStep stores
StoresSoFar == IF pc = "step" THEN (samples - 1) * num_envs ELSE samples * num_envs
\* the markers of the min(stores, capacity) most recently stored transitions
RecentMarkers == (StoresSoFar - Min(StoresSoFar, replay_size) + 1) .. StoresSoFar

\* C1: after any sequence of stores, size = min(number of stores, capacity),
\* the valid slots hold exactly the min(number of stores, capacity) most recent
\* transitions, and every transition of every minibatch that sample can return
\* (and of the minibatch the loop has drawn) is one of them.
ReplayHoldsMostRecent ==
  /\ size = Min(StoresSoFar, replay_size)
  /\ size <= replay_size
  /\ {buf[k].id : k \in 0 .. size - 1} = RecentMarkers
  /\ pc = "sample" =>
       \A bt \in sample(rb_now, mb_size) : \A k \in 1 .. mb_size : bt[k].id \in RecentMarkers
  /\ \A k \in 1 .. Len(batch) : batch[k].id \in RecentMarkers

\* a minibatch drawn after the buffer has wrapped around
ReplayWrappedWitness ==
  /\ pc = "target"
  /\ replay_size = 2
  /\ StoresSoFar > replay_size + 1
  /\ size = replay_size
  /\ batch[1].id = StoresSoFar - 1

\* the current iteration's environment step ended an episode, and ep_length
\* still holds the length of that episode
AtEpisodeEnd == pc = "reset" \/ (pc = "epoch" /\ ep_end /\ ep_length > 0)

\* C2 as stated: at every episode end the number of learning substeps performed
\* is round(ep_length * updates_per_step).
SubstepsAreRounded ==
  AtEpisodeEnd => n_substeps = NumSubstepsRounded(ep_length, updates_per_step)

\* C2 as amended: at an episode end at which the buffer holds at least mb_size
\* transitions the number of learning substeps performed is
\* ep_length * updates_per_step truncated to an integer; at an episode end with
\* fewer transitions no substep is performed.
SubstepsAreTruncated ==
  /\ pc = "reset" =>
       /\ size >= mb_size
       /\ n_substeps = (ep_length * updates_per_step[1]) \div updates_per_step[2]
  /\ (pc = "epoch" /\ ep_end /\ ep_length > 0) => (n_substeps = 0 /\ size < mb_size)

\* an episode of length 1 with updates_per_step = 1.5: one substep, not two
SubstepsTruncatedWitness ==
  /\ pc = "reset"
  /\ ep_length = 1
  /\ updates_per_step = <<3, 2>>
  /\ n_substeps = 1

\* C3 as stated: the done flag stored for the transition of an environment is
\* the terminal flag the environment reported, also on the step at which
\* ep_length equals max_ep_length, and is 0 when the environment reported none.
StoredDoneIsTerminalFlag ==
  pc = "check" =>
    \A i \in Envs : \A k \in 0 .. size - 1 :
      buf[k].id = Marker(samples, i) => buf[k].done = AsFloat(env_dones[i])

\* C4: replay.sample(mb_size) is never invoked with fewer than mb_size stored
\* transitions: a learning substep runs only in an iteration that ended an
\* episode with at least mb_size transitions in the buffer, and an episode end
\* with fewer transitions runs no substep.
SampleOnlyWhenEnough ==
  /\ pc \in {"sample", "target", "critic", "actor", "polyak_pi", "polyak_qf"} =>
       (size >= mb_size /\ ep_end)
  /\ n_substeps > 0 => (size >= mb_size /\ ep_end)
  /\ (pc = "epoch" /\ ep_end /\ size < mb_size) => n_substeps = 0

\* an episode ends while the buffer holds fewer than mb_size transitions
EpisodeEndTooFewWitness ==
  /\ pc = "epoch"
  /\ ep_end
  /\ size < mb_size
  /\ n_substeps = 0

SubstepOrder == <<"sample", "target", "critic", "actor", "polyak_pi", "polyak_qf">>
SubstepPc == <<"target", "critic", "actor", "polyak_pi", "polyak_qf">>

\* C5: the operations of a learning substep are, in this order: sample, target
\* computation, critic step, actor step, Polyak update of the target policy,
\* Polyak update of the target critic, each exactly once; the target is
\* computed from the target networks as they are until the substep's own
\* Polyak updates; a completed substep has performed both Polyak updates.
SubstepIsOrdered ==
  /\ Len(trace) <= Len(SubstepOrder)
  /\ trace = SubSeq(SubstepOrder, 1, Len(trace))
  /\ \A k \in 1 .. Len(SubstepPc) : (pc = SubstepPc[k]) <=> (Len(trace) = k)
  /\ pc \in {"critic", "actor"} => targs = [pi |-> pi_targ, qf |-> qf_targ]
  /\ (n_substeps > 0 /\ pc \notin {"target", "critic", "actor", "polyak_pi", "polyak_qf"})
       => trace = SubstepOrder
  /\ n_substeps = 0 => Len(trace) < Len(SubstepOrder)

\* a burst of two substeps, both complete
TwoSubstepsWitness ==
  /\ pc = "reset"
  /\ n_substeps = 2
  /\ trace = SubstepOrder

\* C6: the target parameters equal the live parameters at initialization and
\* stay equal until a learning substep; a target policy parameter changes only
\* in the Polyak update of the target policy and a target critic parameter
\* only in the Polyak update of the target critic.
TargetsOnlyByPolyak ==
  /\ (pi_targ = policy /\ qf_targ = q_func)
  /\ [][/\ (pi_targ' # pi_targ) => (pc = "polyak_pi")
        /\ (qf_targ' # qf_targ) => (pc = "polyak_qf")
        /\ (pi_targ = policy /\ qf_targ = q_func
              /\ pc \notin {"critic", "actor", "polyak_pi", "polyak_qf"})
             => (pi_targ' = policy' /\ qf_targ' = q_func')]_vars

\* after a learning burst the targets differ from the live parameters
TargetsDivergedWitness ==
  /\ pc = "reset"
  /\ n_substeps > 0
  /\ pi_targ # policy
  /\ qf_targ # q_func

\* C7: step number n uses uniform-random actions exactly when n <= start_steps
\* and the noisy policy action, clipped to the action space, otherwise; with
\* start_steps = 0 no step is random.
ActionStrategyByStep ==
  /\ act_kind # "none" => (act_kind = "random" <=> samples <= start_steps)
  /\ start_steps = 0 => act_kind # "random"
  /\ (pc = "step" /\ act_kind = "policy") =>
       \A i \in Envs :
         /\ acts[i] >= ac_space.low
         /\ acts[i] <= ac_space.high
         /\ \E nz \in NoiseVals :
              acts[i] = IF policy + nz > ac_space.high THEN ac_space.high
                        ELSE IF policy + nz < ac_space.low THEN ac_space.low
                        ELSE policy + nz
  /\ (pc = "step" /\ act_kind = "random") =>
       \A i \in Envs : acts[i] \in ac_space.low .. ac_space.high

\* the first step after the warm-up takes a policy action clipped at the bound
FirstPolicyStepWitness ==
  /\ pc = "step"
  /\ start_steps = 1
  /\ samples = 2
  /\ act_kind = "policy"
  /\ acts[1] = ac_space.high

\* the first iteration, with start_steps = 0 and mb_size = 1, has ended an episode
FirstEpisodeEnded ==
  /\ start_steps = 0
  /\ mb_size = 1
  /\ samples = 1
  /\ pc = "epoch"
  /\ ep_end

\* C8 as stated: with start_steps = 0, mb_size = 1 and a first episode ending
\* after one step, the step that ends it performs at least one learning substep.
FirstEpisodeLearns == FirstEpisodeEnded => n_substeps >= 1

\* C8 as amended: the same, provided updates_per_step >= 1.
FirstEpisodeLearnsIfRateAtLeastOne ==
  (FirstEpisodeEnded /\ updates_per_step[1] >= updates_per_step[2]) => n_substeps >= 1

\* the first one-step episode has been learned from
FirstEpisodeLearnsWitness ==
  /\ FirstEpisodeEnded
  /\ updates_per_step = <<1, 1>>
  /\ n_substeps = 1
  /\ trace = SubstepOrder

(***************************************************************************)
(* Properties of conjugate_gradient.                                       *)
(***************************************************************************)
\* C9: until conjugate_gradient has returned, its next iteration or its return
\* can be taken (no step raises, every number being a fraction, an infinity or
\* NaN); it evaluates f_Ax once per iteration and at most cg_iters times; the
\* loop goes on only
\* while no iteration has left r.r below residual_tol, is left only when r.r
\* is below residual_tol, and the function returns after the break or after
\* cg_iters iterations, whichever comes first.
CGStopsAtBudgetOrTolerance ==
  /\ n_fAx = cg_i
  /\ n_fAx <= cg_iters
  /\ (cg_pc = "loop" /\ cg_i > 0) => ~FLess(rdotr, residual_tol)
  /\ cg_pc = "return" => FLess(rdotr, residual_tol)
  /\ cg_pc = "done" => (FLess(rdotr, residual_tol) \/ n_fAx = cg_iters)
  /\ cg_pc = "done" => Len(cg_x) = Len(cg_b)
  /\ cg_pc # "done" => (cg_pc = "return" \/ (cg_pc = "loop" /\ cg_i <= cg_iters))

\* a call with the default budget that returns early, with a residual that is
\* below the tolerance and not zero
CGEarlyStopWitness ==
  /\ cg_pc = "done"
  /\ cg_iters = CgItersDefault
  /\ n_fAx = 1
  /\ rdotr # Zero
  /\ FLess(rdotr, residual_tol)

\* A is diagonal with a positive diagonal
IsDiagonalPD(A) ==
  \A i, j \in 1 .. Len(A) :
    IF i = j THEN FLess(Zero, A[i][j]) ELSE A[i][j] = Zero

\* the squared norm of b - A.x for the returned x
ResidualOfResult ==
  LET d == VSub(cg_b, f_Ax(cg_A, cg_x)) IN Dot(d, d)

\* C10 as stated, with "exact" read as "up to the residual tolerance": for a
\* diagonal positive-definite A of dimension at most the iteration budget and
\* any b, the returned x is finite and b - A.x has a squared norm below
\* residual_tol.
CGSolvesDiagonalSystems ==
  (cg_pc = "done" /\ IsDiagonalPD(cg_A) /\ Len(cg_A) <= cg_iters) =>
    (VFinite(cg_x) /\ FLess(ResidualOfResult, residual_tol))

\* the leading principal minors of A (dimension 2 or 3) are positive
Det2(a, b, c, d) == FSub(FMul(a, d), FMul(b, c))

LeadingMinor(A, k) ==
  IF k = 1 THEN A[1][1]
  ELSE IF k = 2 THEN Det2(A[1][1], A[1][2], A[2][1], A[2][2])
  ELSE FAdd(FSub(FMul(A[1][1], Det2(A[2][2], A[2][3], A[3][2], A[3][3])),
                 FMul(A[1][2], Det2(A[2][1], A[2][3], A[3][1], A[3][3]))),
            FMul(A[1][3], Det2(A[2][1], A[2][2], A[3][1], A[3][2])))

IsPositiveDefinite(A) ==
  \A k \in 1 .. Len(A) : FLess(Zero, LeadingMinor(A, k))

\* C11 as stated: for a degenerate input (a zero right-hand side b, or a
\* singular matrix that damping has made positive definite) the vector that
\* conjugate_gradient returns is finite, never NaN or infinite.
CGResultIsFinite ==
  (cg_pc = "done" /\ IsPositiveDefinite(cg_A)) => VFinite(cg_x)

(***************************************************************************)
(* Further properties of the off-policy loop.                              *)
(***************************************************************************)
\* C16 as stated: in every reachable state of the off-policy loop ep_length
\* lies within 0 .. max_ep_length, and once an episode end has been handled
\* (the loop is at its epoch test) ep_length is 0 again.
EpLengthWithinMax ==
  /\ ep_length \in 0 .. max_ep_length
  /\ (pc = "epoch" /\ ep_end) => ep_length = 0

\* C17 as stated: every snapshot state passed to save_state holds the sample
\* count and the state of policy, q_func, pi_optim, qf_optim, pi_targ and
\* qf_targ.
CompleteStateKeys ==
  {"alg", "policy", "q_func", "pi_optim", "qf_optim", "pi_targ", "qf_targ"}

SnapshotsAreComplete ==
  \A k \in 1 .. Len(snapshots) : CompleteStateKeys \subseteq snapshots[k].keys

(***************************************************************************)
(* The two Polyak updates of a learning substep (ddpg.py 137-138), from    *)
(* any values of the live and target parameters and for the edge values of *)
(* polyak. The substep is the single one of a one-step first episode.      *)
(***************************************************************************)
\* polyak = 0, 0.5 and 1 as exact fractions
PolyakEdgeSet == {<<0, 1>>, <<1, 2>>, <<1, 1>>}
\* the values of a network parameter when the updates start
PolyakParamVals == -2 .. 2

InitPolyak ==
  /\ CGIdle
  /\ NatIdle
  /\ SaverIdle
  /\ total_steps = MaxSteps
  /\ start_steps = 0
  /\ mb_size = 1
  /\ max_ep_length = 1
  /\ updates_per_step = <<1, 1>>
  /\ replay_size = 1
  /\ num_envs = 1
  /\ epoch \in EpochSet
  /\ polyak \in PolyakEdgeSet
  /\ LET rb == store(ReplayBuffer(1), 1, [id |-> 1, done |-> 0])
     IN buf = rb.buf /\ ptr = rb.ptr /\ size = rb.size
  /\ policy \in PolyakParamVals
  /\ q_func \in PolyakParamVals
  /\ pi_targ \in PolyakParamVals
  /\ qf_targ \in PolyakParamVals
  /\ pc = "polyak_pi"
  /\ samples = 1
  /\ ep_length = 1
  /\ act_kind = "policy"
  /\ acts = <<>>
  /\ env_dones = <<>>
  /\ dones = <<>>
  /\ remaining = 1
  /\ batch = <<>>
  /\ targs = <<>>
  /\ snapshots = <<[index |-> 0, samples |-> 0, keys |-> InitialStateKeys]>>
  /\ ep_end = TRUE
  /\ n_substeps = 0
  /\ trace = <<"sample", "target", "critic", "actor">>

NextPolyak ==
  \/ PolyakPi
  \/ PolyakQf

SpecPolyak == InitPolyak /\ [][NextPolyak]_vars

\* C14: a Polyak update with polyak = 1 leaves the target parameter unchanged
\* and one with polyak = 0 sets it to the live parameter, whatever the two
\* values are; the live parameters are unchanged by both updates, and each
\* update writes its own target only.
PolyakEdgeCases ==
  [][/\ pc = "polyak_pi" =>
          /\ polyak = <<1, 1>> => pi_targ' = pi_targ
          /\ polyak = <<0, 1>> => pi_targ' = policy
          /\ policy' = policy /\ q_func' = q_func /\ qf_targ' = qf_targ
     /\ pc = "polyak_qf" =>
          /\ polyak = <<1, 1>> => qf_targ' = qf_targ
          /\ polyak = <<0, 1>> => qf_targ' = q_func
          /\ policy' = policy /\ q_func' = q_func /\ pi_targ' = pi_targ]_vars

\* with polyak = 0 the target policy has been set to a live policy it differed
\* from by 4, while the target critic still differs from the live critic
PolyakCopyWitness ==
  /\ pc = "polyak_qf"
  /\ polyak = <<0, 1>>
  /\ policy = 2
  /\ pi_targ = 2
  /\ q_func = -2
  /\ qf_targ = 2

\* with polyak = 1 both updates are done and the targets still differ from the
\* live parameters
PolyakKeepWitness ==
  /\ pc = "reset"
  /\ polyak = <<1, 1>>
  /\ policy = 2 /\ pi_targ = -2
  /\ q_func = 1 /\ qf_targ = -1

(***************************************************************************)
(* The on-policy loop natural() of proj/algorithms/natural.py.             *)
(* compute_pg_vars and flatten_trajs (proj.common.sampling) are not part   *)
(* of the sources at hand; they are modelled from the written              *)
(* specification (section 4.2). The collector, the policy gradient and the *)
(* Fisher-vector product are inputs: trajectories, a gradient vector and a *)
(* matrix drawn from small sets.                                           *)
(***************************************************************************)
MaxTotalSteps == 4     \* total_steps ranges over 0..MaxTotalSteps

\* steps and n_envs of the modelled runs
StepsSet == {1, 2}
NatEnvsSet == {1, 2}
\* val_iters of the modelled runs
ValItersSet == {0, 2}
\* gamma = 0.99 and gaelam = 0.97 as exact fractions
GammaDefault == <<99, 100>>
GaelamDefault == <<97, 100>>
\* pol_grad is counted in units of 1e-4, so that, in the square of that unit,
\* residual_tol = 1e-10 is 1/100, the 1e-8 of the scale is 1 and
\* delta = 0.01 is 10^6
ResidualTolDefault == <<1, 100>>
ScaleEps == <<1, 1>>
DeltaDefault == <<1000000, 1>>
\* the policy gradients and the matrices of the Fisher-vector product
PolGradSet == {<<0, 0>>, <<2, -1>>}
FvpMatrixSet == {<<<<2, 1>>, <<1, 2>>>>}

\* the column of environment e of a time-major table
Column(m, e) == [t \in 1 .. Len(m) |-> m[t][e]]

\* A_t = delta_t + gamma * lam * (1 - done_t) * A_{t+1}, with
\* delta_t = r_t + gamma * (1 - done_t) * V(s_{t+1}) - V(s_t) and A_{T+1} = 0
RECURSIVE gae_no_reset(_, _, _, _, _, _)
gae_no_reset(rews, dns, vals, gamma, lam, t) ==
  IF t > Len(rews) THEN Zero
  ELSE LET delta == FSub(FAdd(rews[t], FMul(gamma, vals[t + 1])), vals[t])
       IN FAdd(delta, FMul(FMul(gamma, lam),
                           gae_no_reset(rews, dns, vals, gamma, lam, t + 1)))

RECURSIVE gae_advantage(_, _, _, _, _, _)
gae_advantage(rews, dns, vals, gamma, lam, t) ==
  IF t > Len(rews) THEN Zero
  ELSE LET nonterm == <<1 - dns[t], 1>>
           delta == FSub(FAdd(rews[t], FMul(FMul(gamma, nonterm), vals[t + 1])), vals[t])
       IN FAdd(delta, FMul(FMul(FMul(gamma, lam), nonterm),
                           gae_advantage(rews, dns, vals, gamma, lam, t + 1)))

\* compute_pg_vars(trajs, val_fn, gamma, gaelam): fills in advs and rets,
\* each environment on its own
compute_pg_vars(trajs, gamma, lam) ==
  LET T == Len(trajs.rews)
      n == Len(trajs.rews[1])
      adv(t, e) == gae_advantage(Column(trajs.rews, e), Column(trajs.dones, e),
                                 Column(trajs.vals, e), gamma, lam, t)
  IN [trajs EXCEPT
        !.advs = [t \in 1 .. T |-> [e \in 1 .. n |-> adv(t, e)]],
        !.rets = [t \in 1 .. T |-> [e \in 1 .. n |-> FAdd(adv(t, e), trajs.vals[t][e])]]]

\* flatten_trajs: a time-major table as one sequence, time step by time step
flatten(m) ==
  IF Len(m) = 0 THEN <<>>
  ELSE LET n == Len(m[1])
       IN [i \in 1 .. Len(m) * n |-> m[((i - 1) \div n) + 1][((i - 1) % n) + 1]]

\* all_vals[:-n_envs]
DropLeading(all, n) == SubSeq(all, n + 1, Len(all))
DropBootstrap(all, n) == SubSeq(all, 1, Len(all) - n)

\* the trajectories of steps T of n environments: rewards, done flags, and the
\* value estimates of the T + 1 observations
TrajSet(T, n, R, D, V) ==
  {[rews |-> [t \in 1 .. T |-> IntVec(r[t])], dones |-> d,
    vals |-> [t \in 1 .. T + 1 |-> IntVec(v[t])], advs |-> <<>>, rets |-> <<>>] :
     r \in [1 .. T -> [1 .. n -> R]], d \in [1 .. T -> [1 .. n -> D]],
     v \in [1 .. T + 1 -> [1 .. n -> V]]}

\* a vector with its entries evaluated
AsTuple(v) == SubSeq(v, 1, Len(v))

\* conjugate_gradient(f_Ax, b) of utils.py 17-39 as a function of its arguments
RECURSIVE cg_loop(_, _, _, _, _, _, _, _)
cg_loop(A, cp, cr, cx, rd, i, iters, tol) ==
  IF i >= iters THEN cx
  ELSE LET z == f_Ax(A, cp)
           v == FDiv(rd, Dot(cp, z))
           x1 == AsTuple(VAdd(cx, VScale(v, cp)))
           r1 == AsTuple(VSub(cr, VScale(v, z)))
           newrdotr == Dot(r1, r1)
           mu == FDiv(newrdotr, rd)
           p1 == AsTuple(VAdd(r1, VScale(mu, cp)))
       IN IF ShouldBreak(newrdotr, tol) THEN x1
          ELSE cg_loop(A, p1, r1, x1, newrdotr, i + 1, iters, tol)

conjugate_gradient(A, b, iters, tol) ==
  cg_loop(A, b, b, [k \in 1 .. Len(b) |-> Zero], Dot(b, b), 0, iters, tol)

\* what natural() leaves alone
nonnat == <<ddpgvars, cgvars, savervars>>

\* beg, end, stp = steps * n_envs, total_steps + steps * n_envs, steps * n_envs
stp == nat_args.steps * nat_args.n_envs
beg == nat_args.steps * nat_args.n_envs
end_short == nat_args.total_steps
end == nat_args.total_steps + nat_args.steps * nat_args.n_envs
\* the next value of range(beg, end, stp) after the loop variable's current one
NextSample == IF nat.samples = 0 THEN beg ELSE nat.samples + stp

\* the locals before the first iteration: the policy as the sequence of the
\* steps subtracted from its initial parameters, each step being
\* dir * sqrt(scale_sq); val_fn as the number of optimizer steps taken on it
NatStart ==
  [pc |-> "loop", samples |-> 0, trajs |-> <<>>,
   all_advs |-> <<>>, all_vals |-> <<>>, all_rets |-> <<>>,
   pol_grad |-> <<>>, fvp |-> <<>>, descent_direction |-> <<>>,
   policy |-> <<>>, val_fn |-> 0, val_left |-> 0,
   logged |-> <<>>, saved |-> <<>>, closed |-> FALSE]

NatArgs ==
  [total_steps : 0 .. MaxTotalSteps, steps : StepsSet, n_envs : NatEnvsSet,
   gamma : {GammaDefault}, gaelam : {GaelamDefault}, delta : {DeltaDefault},
   val_iters : ValItersSet]

InitNat ==
  /\ DDPGIdle
  /\ CGIdle
  /\ SaverIdle
  /\ nat_args \in NatArgs
  /\ nat = NatStart

\* natural.py 68-70: the next value of the range
NextIteration ==
  /\ nat.pc = "loop"
  /\ NextSample < end
  /\ nat' = [nat EXCEPT !.samples = NextSample, !.pc = "collect"]
  /\ UNCHANGED <<nonnat, nat_args>>

\* natural.py 73: trajs = next(collector)
Collect ==
  /\ nat.pc = "collect"
  /\ \E tr \in TrajSet(nat_args.steps, nat_args.n_envs, {1}, {0, 1}, {0}) :
       nat' = [nat EXCEPT !.trajs = tr, !.pc = "pg_vars"]
  /\ UNCHANGED <<nonnat, nat_args>>

\* natural.py 76: compute_pg_vars(trajs, val_fn, gamma, gaelam)
ComputePgVars ==
  /\ nat.pc = "pg_vars"
  /\ nat' = [nat EXCEPT
               !.trajs = compute_pg_vars(nat.trajs, nat_args.gamma, nat_args.gaelam),
               !.pc = "flatten"]
  /\ UNCHANGED <<nonnat, nat_args>>

\* natural.py 77-79: flatten_trajs(trajs) and the cut of the bootstrap values
FlattenTrajs ==
  /\ nat.pc = "flatten"
  /\ nat' = [nat EXCEPT
               !.all_advs = flatten(nat.trajs.advs),
               !.all_vals = DropBootstrap(flatten(nat.trajs.vals), nat_args.n_envs),
               !.all_rets = flatten(nat.trajs.rets),
               !.pc = "grad"]
  /\ UNCHANGED <<nonnat, nat_args>>

\* natural.py 82-98: the policy gradient and the Fisher-vector product closure
PolicyGradient ==
  /\ nat.pc = "grad"
  /\ \E g \in PolGradSet, F \in FvpMatrixSet :
       nat' = [nat EXCEPT !.pol_grad = IntVec(g), !.fvp = IntMat(F), !.pc = "cg"]
  /\ UNCHANGED <<nonnat, nat_args>>

\* natural.py 100: descent_direction = conjugate_gradient(fvp, pol_grad)
SolveCG ==
  /\ nat.pc = "cg"
  /\ nat' = [nat EXCEPT
               !.descent_direction =
                  conjugate_gradient(nat.fvp, nat.pol_grad, CgItersDefault,
                                     ResidualTolDefault),
               !.pc = "step"]
  /\ UNCHANGED <<nonnat, nat_args>>

\* scale ** 2 = 2 * delta / (pol_grad.dot(descent_direction) + 1e-8)
ScaleSquared(g, x, delta) ==
  FDiv(FMul(<<2, 1>>, delta), FAdd(Dot(g, x), ScaleEps))

\* a step that is applied only when it is finite
NaturalStepIfFinite ==
  /\ nat.pc = "step"
  /\ LET sq == ScaleSquared(nat.pol_grad, nat.descent_direction, nat_args.delta)
     IN nat' = [nat EXCEPT
                  !.policy = IF IsFinite(sq) /\ VFinite(nat.descent_direction)
                             THEN Append(nat.policy,
                                         [dir |-> nat.descent_direction, scale_sq |-> sq])
                             ELSE nat.policy,
                  !.val_left = nat_args.val_iters,
                  !.pc = "val_fit"]
  /\ UNCHANGED <<nonnat, nat_args>>

\* natural.py 101-104: the scale, the step and the new parameters of the policy
NaturalStep ==
  /\ nat.pc = "step"
  /\ LET sq == ScaleSquared(nat.pol_grad, nat.descent_direction, nat_args.delta)
     IN nat' = [nat EXCEPT
                  !.policy = Append(nat.policy,
                                    [dir |-> nat.descent_direction, scale_sq |-> sq]),
                  !.val_left = nat_args.val_iters,
                  !.pc = "val_fit"]
  /\ UNCHANGED <<nonnat, nat_args>>

\* natural.py 107-110: one regression step of the value function
ValFnStep ==
  /\ nat.pc = "val_fit"
  /\ nat.val_left > 0
  /\ nat' = [nat EXCEPT !.val_fn = nat.val_fn + 1, !.val_left = nat.val_left - 1]
  /\ UNCHANGED <<nonnat, nat_args>>

\* natural.py 107, 113-118: the range is exhausted; logkv("TotalNSamples", samples)
LogIteration ==
  /\ nat.pc = "val_fit"
  /\ nat.val_left = 0
  /\ nat' = [nat EXCEPT !.logged = Append(nat.logged, nat.samples), !.pc = "save"]
  /\ UNCHANGED <<nonnat, nat_args>>

\* natural.py 121-130: saver.save_state(samples // stp, ...) and the del of the
\* iteration's locals
SaveSnapshot ==
  /\ nat.pc = "save"
  /\ nat' = [nat EXCEPT
               !.saved = Append(nat.saved, [index |-> nat.samples \div stp,
                                            last_iter |-> nat.samples \div stp]),
               !.trajs = <<>>, !.all_advs = <<>>, !.all_vals = <<>>, !.all_rets = <<>>,
               !.pol_grad = <<>>, !.fvp = <<>>, !.descent_direction = <<>>,
               !.pc = "loop"]
  /\ UNCHANGED <<nonnat, nat_args>>

\* natural.py 68, 132: the range is exhausted; vec_env.close()
CloseEnv ==
  /\ nat.pc = "loop"
  /\ ~(NextSample < end)
  /\ nat' = [nat EXCEPT !.closed = TRUE, !.pc = "done"]
  /\ UNCHANGED <<nonnat, nat_args>>

NextNat ==
  \/ NextIteration
  \/ Collect
  \/ ComputePgVars
  \/ FlattenTrajs
  \/ PolicyGradient
  \/ SolveCG
  \/ NaturalStep
  \/ ValFnStep
  \/ LogIteration
  \/ SaveSnapshot
  \/ CloseEnv

SpecNat == InitNat /\ [][NextNat]_vars

(***************************************************************************)
(* Properties of the on-policy loop.                                       *)
(***************************************************************************)
\* the number of the current iteration, counted from 1 (0 before the first)
Iteration == nat.samples \div stp

\* C12: in iteration i the policy parameters are written exactly once, by the
\* step of natural.py 101-104, whatever the scale is (finite or not): the
\* parameters become the old ones minus x * sqrt(2 * delta / (g.x + 1e-8)),
\* x being the result of conjugate_gradient for g; that step leaves the value
\* function as the regression steps of the earlier iterations left it, and
\* exactly val_iters regression steps follow it before the iteration logs.
PolicySteppedOncePerIteration ==
  LET i == Iteration
      vi == nat_args.val_iters
  IN /\ nat.pc \in {"collect", "pg_vars", "flatten", "grad", "cg", "step"} =>
          /\ Len(nat.policy) = i - 1
          /\ nat.val_fn = (i - 1) * vi
     /\ nat.pc = "val_fit" =>
          /\ Len(nat.policy) = i
          /\ nat.val_left \in 0 .. vi
          /\ nat.val_fn = (i - 1) * vi + (vi - nat.val_left)
          /\ nat.descent_direction =
               conjugate_gradient(nat.fvp, nat.pol_grad, CgItersDefault, ResidualTolDefault)
          /\ nat.policy[i].dir = nat.descent_direction
          /\ nat.policy[i].scale_sq =
               FDiv(FAdd(nat_args.delta, nat_args.delta),
                    FAdd(Dot(nat.pol_grad, nat.descent_direction), <<1, 1>>))
     /\ nat.pc \in {"save", "loop", "done"} =>
          /\ Len(nat.policy) = i
          /\ nat.val_fn = i * vi

\* the second iteration has fitted the value function after a step that is
\* not finite (zero gradient), the first one after a finite step
NonFiniteStepWitness ==
  /\ nat.pc = "val_fit"
  /\ nat_args.val_iters = 2
  /\ nat.val_left = 0
  /\ nat.val_fn = 4
  /\ Len(nat.policy) = 2
  /\ nat.policy[1].scale_sq = <<6000000, 17>>
  /\ nat.policy[1].dir = <<<<5, 3>>, <<-4, 3>>>>
  /\ ~VFinite(nat.policy[2].dir)
  /\ ~IsFinite(nat.policy[2].scale_sq)

Ceil(a, b) == (a + b - 1) \div b

GaeShapes == {<<3, 1>>, <<2, 2>>}
\* <<gamma, gaelam>> of the modelled calls
GaeParamSet == {<<<<1, 1>>, <<1, 1>>>>, <<<<1, 2>>, <<1, 2>>>>, <<<<1, 1>>, <<1, 2>>>>}

InitGAE ==
  /\ DDPGIdle
  /\ CGIdle
  /\ SaverIdle
  /\ \E sh \in GaeShapes, gl \in GaeParamSet :
       /\ nat_args = [total_steps |-> sh[1] * sh[2], steps |-> sh[1], n_envs |-> sh[2],
                      gamma |-> gl[1], gaelam |-> gl[2], delta |-> DeltaDefault,
                      val_iters |-> 0]
       /\ \E tr \in TrajSet(sh[1], sh[2], {0, 1}, {0, 1}, {0, 2}) :
            nat = [NatStart EXCEPT !.pc = "pg_vars", !.samples = sh[1] * sh[2],
                                   !.trajs = tr]

NextGAE ==
  \/ ComputePgVars
  \/ FlattenTrajs

SpecGAE == InitGAE /\ [][NextGAE]_vars

\* the first step from t on at which environment e is done, T + 1 if there is none
EpisodeEnd(e, t) ==
  LET T == Len(nat.trajs.dones)
      ends == {k \in t .. T : nat.trajs.dones[k][e] = 1}
  IN IF ends = {} THEN T + 1 ELSE CHOOSE k \in ends : \A j \in ends : k <= j

RECURSIVE RewardSum(_, _, _)
RewardSum(e, from, to) ==
  IF from > to THEN 0 ELSE nat.trajs.rews[from][e][1] + RewardSum(e, from + 1, to)

\* the rewards of environment e from step t up to and including its first done
\* step, or up to the last step plus the bootstrap value when there is none
RewardToGo(e, t) ==
  LET T == Len(nat.trajs.dones)
      k == EpisodeEnd(e, t)
  IN IF k <= T THEN RewardSum(e, t, k)
     ELSE RewardSum(e, t, T) + nat.trajs.vals[T + 1][e][1]

\* C13: with gamma = lambda = 1 the advantage of step t of an environment is
\* the sum of its rewards from t up to and including its first done step (or
\* up to the last step, plus the bootstrap value, when no done occurs) minus
\* V(s_t), so that nothing after a done step contributes to an advantage
\* before it; the flattened target of a step is its advantage plus V(s_t),
\* the bootstrap values being cut from the flattened values.
GaeIsRewardToGo ==
  (nat.pc = "grad" /\ nat_args.gamma = <<1, 1>> /\ nat_args.gaelam = <<1, 1>>) =>
    LET T == nat_args.steps
        n == nat_args.n_envs
    IN /\ Len(nat.all_advs) = T * n
       /\ Len(nat.all_vals) = T * n
       /\ Len(nat.all_rets) = T * n
       /\ \A t \in 1 .. T : \A e \in 1 .. n :
            LET i == (t - 1) * n + e
            IN /\ nat.all_advs[i] = <<RewardToGo(e, t) - nat.trajs.vals[t][e][1], 1>>
               /\ nat.all_vals[i] = nat.trajs.vals[t][e]
               /\ nat.all_rets[i] = FAdd(nat.all_advs[i], nat.all_vals[i])

\* three steps of one environment that is done at the second step: the reward
\* of the third step and the bootstrap value count for the third step only
GaeDoneInTheMiddleWitness ==
  /\ nat.pc = "grad"
  /\ nat_args.gamma = <<1, 1>> /\ nat_args.gaelam = <<1, 1>>
  /\ nat_args.steps = 3
  /\ nat.trajs.dones = <<<<0>>, <<1>>, <<0>>>>
  /\ nat.trajs.rews = <<<<<<1, 1>>>>, <<<<1, 1>>>>, <<<<1, 1>>>>>>
  /\ nat.trajs.vals = <<<<<<2, 1>>>>, <<<<0, 1>>>>, <<<<2, 1>>>>, <<<<2, 1>>>>>>
  /\ nat.all_advs = <<<<0, 1>>, <<1, 1>>, <<1, 1>>>>
  /\ nat.all_rets = <<<<2, 1>>, <<1, 1>>, <<3, 1>>>>

(***************************************************************************)
(* SnapshotSaver of proj/utils/saver.py. The file system holds the         *)
(* snapshots folder and, for every file name, what the file holds: nothing *)
(* (the file is absent), a truncated pickle, or a pickled (config, state)  *)
(* pair. A file name is <<"latest", 0>> for latest.pkl and <<"index", k>>  *)
(* for k.pkl. torch.load of a truncated file raises EOFError.              *)
(***************************************************************************)
MaxIndex == 3          \* snapshot indexes range over 0..MaxIndex
MaxSaves == 2          \* save_state calls of a modelled run

\* save_interval of the modelled savers
SaveIntervalSet == {1, 2, 3}
\* the states passed to save_state, the config of the saver, and the config
\* stored in the files of an earlier run
SnapStates == {"s1", "s2"}
Config == "config"
OldConfig == "old_config"
\* get_state(index=None)
NoIndex == -1

LatestPkl == <<"latest", 0>>
IndexPkl(k) == <<"index", k>>
FileNames == {LatestPkl} \cup {IndexPkl(k) : k \in 0 .. MaxIndex}

Absent == [kind |-> "absent"]
Truncated == [kind |-> "truncated"]
\* torch.save((config, state), f)
Pickled(c, st) == [kind |-> "snapshot", config |-> c, state |-> st]

EmptyFolder == [nm \in FileNames |-> Absent]
With(files, nm, content) == [files EXCEPT ![nm] = content]

\* what the path holds when the saver is constructed
InitialFs ==
  {[folder |-> FALSE, files |-> EmptyFolder],
   [folder |-> TRUE, files |-> EmptyFolder],
   [folder |-> TRUE, files |-> With(EmptyFolder, LatestPkl, Pickled(OldConfig, "s1"))],
   [folder |-> TRUE, files |-> With(EmptyFolder, LatestPkl, Truncated)],
   [folder |-> TRUE, files |-> With(EmptyFolder, IndexPkl(1), Pickled(OldConfig, "s1"))],
   [folder |-> TRUE, files |-> With(With(EmptyFolder, IndexPkl(1), Pickled(OldConfig, "s1")),
                                    IndexPkl(2), Truncated)],
   [folder |-> TRUE, files |-> With(EmptyFolder, IndexPkl(2), Truncated)]}

Listing(f) == {nm \in FileNames : f.files[nm] # Absent}

\* saver.py 16-24: latest_only as given, or found out from the folder
ResolveLatestOnly(arg, f) ==
  IF arg = "none"
  THEN IF f.folder /\ f.files[LatestPkl] = Absent /\ Listing(f) # {} THEN FALSE ELSE TRUE
  ELSE arg = "true"

\* saver.py 30-34: get_snapshot_path
get_snapshot_path(sv, index) == IF sv.latest_only THEN LatestPkl ELSE IndexPkl(index)

\* saver.py 37: if index == 1 or index % self.save_interval == 0
ShouldSaveAlways(index, interval) == TRUE
ShouldSave(index, interval) == index = 1 \/ index % interval = 0

\* saver.py 36-42: save_state
save_state(sv, f, index, st) ==
  IF ShouldSave(index, sv.save_interval)
  THEN [folder |-> TRUE,
        files |-> With(f.files, get_snapshot_path(sv, index), Pickled(sv.config, st))]
  ELSE f

Returned(v) == [kind |-> "value", value |-> v]
ReturnedNone == [kind |-> "none"]
Raised(exc) == [kind |-> "raise", exc |-> exc]
NotCalled == [kind |-> "not_called"]

\* with open(path, "rb") as f: return torch.load(f), inside try/except EOFError;
\* "pass" stands for the EOFError that was caught
OpenAndLoad(f, nm) ==
  IF ~f.folder \/ f.files[nm] = Absent THEN Raised("FileNotFoundError")
  ELSE IF f.files[nm] = Truncated THEN [kind |-> "pass"]
  ELSE Returned(<<f.files[nm].config, f.files[nm].state>>)

\* saver.py 59-69: the files in descending order of their number, the first
\* one that loads
RECURSIVE LoadNewest(_, _)
LoadNewest(f, k) ==
  IF k < 0 THEN ReturnedNone
  ELSE IF f.files[IndexPkl(k)] = Absent THEN LoadNewest(f, k - 1)
  ELSE IF OpenAndLoad(f, IndexPkl(k)).kind = "pass" THEN LoadNewest(f, k - 1)
  ELSE OpenAndLoad(f, IndexPkl(k))

\* saver.py 44-69: get_state
get_state(sv, f, index) ==
  IF sv.latest_only
  THEN LET res == OpenAndLoad(f, get_snapshot_path(sv, 0))
       IN IF res.kind = "pass" THEN ReturnedNone ELSE res
  ELSE IF index # NoIndex
  THEN LET res == OpenAndLoad(f, get_snapshot_path(sv, index))
       IN IF res.kind = "pass" THEN ReturnedNone ELSE res
  ELSE IF ~f.folder THEN Raised("FileNotFoundError")
  ELSE IF f.files[LatestPkl] # Absent THEN Raised("ValueError")
  ELSE LoadNewest(f, MaxIndex)

\* what the saver leaves alone
nonsaver == <<ddpgvars, cgvars, natvars>>

\* saver.py 11-24: the constructor. sv_obs observes the calls: the result of
\* the last get_state since the last save_state, the pair passed by the most
\* recent save_state call whose index was 1 or a multiple of save_interval,
\* the last save_state call, and the file system at construction.
InitSaver ==
  /\ DDPGIdle
  /\ CGIdle
  /\ NatIdle
  /\ fs \in InitialFs
  /\ \E arg \in {"none", "true", "false"}, interval \in SaveIntervalSet :
       saver = [config |-> Config, save_interval |-> interval,
                latest_only |-> ResolveLatestOnly(arg, fs)]
  /\ sv_obs = [ret |-> NotCalled, expected |-> [kind |-> "none"],
               last_index |-> NoIndex, last_state |-> "none", n_saves |-> 0, fs0 |-> fs]

\* a call of save_state(index, state)
SaveStateCall ==
  /\ sv_obs.n_saves < MaxSaves
  /\ \E index \in 0 .. MaxIndex, st \in SnapStates :
       /\ fs' = save_state(saver, fs, index, st)
       /\ sv_obs' = [sv_obs EXCEPT
                       !.ret = NotCalled,
                       !.expected = IF index = 1 \/ index % saver.save_interval = 0
                                    THEN [kind |-> "some", value |-> <<saver.config, st>>]
                                    ELSE sv_obs.expected,
                       !.last_index = index,
                       !.last_state = st,
                       !.n_saves = sv_obs.n_saves + 1]
  /\ UNCHANGED <<nonsaver, saver>>

\* a call of get_state(index), index being None or a number
GetStateCall ==
  /\ \E index \in {NoIndex} \cup (0 .. MaxIndex) :
       sv_obs' = [sv_obs EXCEPT !.ret = get_state(saver, fs, index)]
  /\ UNCHANGED <<nonsaver, saver, fs>>

NextSaver ==
  \/ SaveStateCall
  \/ GetStateCall

SpecSaver == InitSaver /\ [][NextSaver]_vars

(***************************************************************************)
(* Properties of SnapshotSaver.                                            *)
(***************************************************************************)
\* C18 as stated: get_state never raises; it returns None when the requested
\* snapshot does not exist and when its file is truncated.
GetStateNeverRaises == sv_obs.ret.kind # "raise"

\* C19: in latest-only mode, once a save_state call with index 1 or a multiple
\* of save_interval has been made, latest.pkl holds the (config, state) pair of
\* the most recent such call and get_state returns that pair, whatever index
\* it is given; until such a call is made the files are as they were at
\* construction, so a call with any other index writes nothing.
LatestOnlyReturnsLastSaved ==
  saver.latest_only =>
    /\ sv_obs.expected.kind = "none" => fs = sv_obs.fs0
    /\ sv_obs.expected.kind = "some" =>
         /\ fs.folder
         /\ fs.files[LatestPkl] =
              Pickled(sv_obs.expected.value[1], sv_obs.expected.value[2])
         /\ \A nm \in FileNames \ {LatestPkl} : fs.files[nm] = sv_obs.fs0.files[nm]
         /\ sv_obs.ret # NotCalled => sv_obs.ret = Returned(sv_obs.expected.value)

\* save_state(2, "s1") then save_state(3, "s2") with save_interval = 2:
\* get_state returns the pair of the first call
SkippedSaveWitness ==
  /\ saver.latest_only
  /\ saver.save_interval = 2
  /\ sv_obs.n_saves = 2
  /\ sv_obs.last_index = 3
  /\ sv_obs.last_state = "s2"
  /\ sv_obs.ret = Returned(<<Config, "s1">>)

====
